---------------------------- MODULE Spec2Model ----------------------------
(***************************************************************************)
(* Model of the job execution core of ops-console/app.py: the validators,  *)
(* the job table guarded by jobs_lock, the single run slot running_job_id, *)
(* the runner thread run_job, append_log, and the polling endpoints.       *)
(*                                                                         *)
(* Strings are sequences of one-character strings; a longer element stands *)
(* for a fixed piece of text that contains no newline.                     *)
(***************************************************************************)
EXTENDS Integers, Sequences, FiniteSets, TLC

(* ------------------------------ bounds -------------------------------- *)
\* number of jobs the model lets create_job accept
MaxJobs == 2
\* number of output lines one external process writes at most
MaxLines == 1
\* largest offset a poller passes to /api/job/<id>
MaxOffset == 1
\* largest cap MAX_LOG_LINES the log buffer is run with on its own
MaxCap == 3
\* number of lines one job's log receives at most when run on its own,
\* the "Job created" line included
MaxAppends == 5
\* largest length of the short strings the validators are called with
MaxLen == 3

(* ----------------------- configuration constants ---------------------- *)
\* the MAX_LOG_LINES environment variable of the modelled deployment: a small
\* cap in place of the default "5000"
MAX_LOG_LINES_ENV == 2
\* os.getenv("DEFAULT_REPO", "") with the variable unset
DEFAULT_REPO == <<>>

\* Python's None, a value no job id, timestamp or exit code equals
None == -100
\* jobs_lock holds <<kind, id>> of the owning thread, or NoOwner
NoOwner == <<>>

JobIds == 1..MaxJobs
Callers == {"c1", "c2"}

(* ------------------------------ strings ------------------------------- *)
Lower == {"a","b","c","d","e","f","g","h","i","j","k","l","m",
          "n","o","p","q","r","s","t","u","v","w","x","y","z"}
Upper == {"A","B","C","D","E","F","G","H","I","J","K","L","M",
          "N","O","P","Q","R","S","T","U","V","W","X","Y","Z"}
Digit == {"0","1","2","3","4","5","6","7","8","9"}
\* the character class [A-Za-z0-9._/\-] of validate_ref
RefClass == Lower \cup Upper \cup Digit \cup {".", "_", "/", "-"}
\* the character class [A-Za-z0-9._:/-] of validate_repo
RepoClass == Lower \cup Upper \cup Digit \cup {".", "_", ":", "/", "-"}
Whitespace == {" ", "\n", "\t"}

AllIn(s, class) == \A i \in 1..Len(s) : s[i] \in class

\* what the pattern's final $ matches: the end of the string, or the
\* position just before one newline that ends the string
DollarMatches(rest) == rest = <<>> \/ rest = <<"\n">>

\* re.match(r"^(https://|git@)[A-Za-z0-9._:/-]+(\.git)?$", repo)
validate_repo(repo) ==
    \E prefix \in {<<"h","t","t","p","s",":","/","/">>, <<"g","i","t","@">>} :
      /\ Len(repo) >= Len(prefix)
      /\ SubSeq(repo, 1, Len(prefix)) = prefix
      /\ \E n \in 1..(Len(repo) - Len(prefix)) :
           \E suffix \in {<<>>, <<".","g","i","t">>} :
             LET body == SubSeq(repo, Len(prefix) + 1, Len(prefix) + n)
                 from == Len(prefix) + n + 1
                 upto == Len(prefix) + n + Len(suffix)
             IN  /\ AllIn(body, RepoClass)
                 /\ upto <= Len(repo)
                 /\ SubSeq(repo, from, upto) = suffix
                 /\ DollarMatches(SubSeq(repo, upto + 1, Len(repo)))

\* re.match(r"^[A-Za-z0-9._/\-]{1,128}$", ref)
validate_ref(ref) ==
    \E n \in 1..(IF Len(ref) < 128 THEN Len(ref) ELSE 128) :
      /\ AllIn(SubSeq(ref, 1, n), RefClass)
      /\ DollarMatches(SubSeq(ref, n + 1, Len(ref)))

\* str.strip(): drop leading and trailing whitespace
RECURSIVE lstrip(_)
lstrip(s) == IF s # <<>> /\ Head(s) \in Whitespace THEN lstrip(Tail(s)) ELSE s
RECURSIVE rstrip(_)
rstrip(s) == IF s # <<>> /\ s[Len(s)] \in Whitespace
             THEN rstrip(SubSeq(s, 1, Len(s) - 1)) ELSE s
strip(s) == rstrip(lstrip(s))

\* line.rstrip("\n"): drop trailing newlines only
RECURSIVE rstrip_newline(_)
rstrip_newline(s) == IF s # <<>> /\ s[Len(s)] = "\n"
                     THEN rstrip_newline(SubSeq(s, 1, Len(s) - 1)) ELSE s


(* --------------------------- request inputs --------------------------- *)
Actions == {"deploy", "rollback"}
\* action in {"download", "deploy", "upgrade"}
NeedsRepoRef(action) == action \in {"download", "deploy", "upgrade"}

Main == <<"m","a","i","n">>
\* JSON bodies a client may send: the repo and ref fields, <<>> when absent
RawRepos == {<<>>,
             <<" ","g","i","t","@","h",":","r",".","g","i","t">>,
             <<"n","o","t"," ","a"," ","u","r","l">>}
RawRefs == {<<>>, <<"m","a","i","n","\n">>, <<"v",";","r","m">>}
RequestData == [repo : RawRepos, ref : RawRefs]

\* parse_repo_ref(): strip both fields, default the ref to "main" and the
\* repo to DEFAULT_REPO
parse_repo_ref(data) ==
    LET repo == strip(data.repo)
        ref0 == strip(IF data.ref = <<>> THEN Main ELSE data.ref)
        ref  == IF ref0 = <<>> THEN Main ELSE ref0
    IN  [repo |-> IF repo = <<>> THEN strip(DEFAULT_REPO) ELSE repo,
         ref  |-> ref]

\* the arguments create_action_job passes to create_job
JobArgs(action, data) ==
    IF NeedsRepoRef(action) THEN parse_repo_ref(data)
    ELSE [repo |-> <<>>, ref |-> Main]

\* faulty variant: the ref is not validated
ValidationErrorNoRefCheck(action, data) ==
    LET args == JobArgs(action, data) IN
    IF ~NeedsRepoRef(action) THEN "ok"
    ELSE IF args.repo = <<>> THEN "repo_required"
    ELSE IF ~validate_repo(args.repo) THEN "invalid_repo"
    ELSE "ok"

\* the 400 answer of create_action_job, or "ok" when validation passes
ValidationError(action, data) ==
    LET args == JobArgs(action, data) IN
    IF ~NeedsRepoRef(action) THEN "ok"
    ELSE IF args.repo = <<>> THEN "repo_required"
    ELSE IF ~validate_repo(args.repo) THEN "invalid_repo"
    ELSE IF ~validate_ref(args.ref) THEN "invalid_ref"
    ELSE "ok"

(* ------------------------------- state -------------------------------- *)
VARIABLES
    jobs,            \* the jobs dict: job id -> job record
    running_job_id,  \* the run slot: a job id or None
    jobs_lock,       \* the thread holding jobs_lock, or NoOwner
    clock,           \* the value the next now_iso() call returns
    request,         \* per request thread: position and locals of create_action_job
    runner,          \* per job: position and locals of its run_job thread
    process,         \* per job: the external process started by Popen
    output,          \* the HTTP answer returned by the latest step, if any
    MAX_LOG_LINES,   \* the cap read from the environment when the module loads
    appended,        \* history, per job: every line ever added to its logs
    validator        \* the latest direct call of a validator and its result

vars == <<jobs, running_job_id, jobs_lock, clock, request, runner, process, output,
          MAX_LOG_LINES, appended, validator>>

NoOutput == [kind |-> "none"]
IdleRequest == [pc |-> "idle", action |-> "", repo |-> <<>>, ref |-> <<>>,
                job_id |-> None]
NoRunner == [pc |-> "none", line |-> <<>>, after |-> "", raised |-> FALSE,
             return_code |-> None]
NoProcess == [state |-> "none", cmd |-> <<>>, written |-> 0]
NoCall == [fn |-> "none", arg |-> <<>>, result |-> FALSE]

Init ==
    /\ jobs = <<>>
    /\ running_job_id = None
    /\ jobs_lock = NoOwner
    /\ clock = 1
    /\ request = [c \in Callers |-> IdleRequest]
    /\ runner = [j \in JobIds |-> NoRunner]
    /\ process = [j \in JobIds |-> NoProcess]
    /\ output = NoOutput
    /\ MAX_LOG_LINES = MAX_LOG_LINES_ENV
    /\ appended = <<>>
    /\ validator = NoCall

Terminal(status) == status \in {"success", "failed"}

\* output only records what the latest step answered and nothing reads it:
\* the answer leaves the server (Deliver) before the next step is taken
Quiet == output = NoOutput

(* ------------------------------ the lock ------------------------------ *)
\* faulty variant: the critical sections do not exclude one another
LockAvailableNoMutex(thread) == TRUE

\* "with jobs_lock:" is entered only while no thread holds the lock
LockAvailable(thread) == jobs_lock = NoOwner

(* ----------------------------- create_job ----------------------------- *)
\* faulty variant: the status is compared with a string no job ever has
CreateJobRejectsMisspelt(slot, table) ==
    /\ slot # None
    /\ slot \in DOMAIN table
    /\ table[slot].status = "Running"

\* faulty variant: only the slot is tested, not the status of the job it names
CreateJobRejectsSlotOnly(slot, table) == slot # None

\* faulty variant: the status test is inverted
CreateJobRejectsInverted(slot, table) ==
    /\ slot # None
    /\ slot \in DOMAIN table
    /\ table[slot].status # "running"

\* if running_job_id and jobs.get(running_job_id, {}).get("status") == "running"
CreateJobRejects(slot, table) ==
    /\ slot # None
    /\ slot \in DOMAIN table
    /\ table[slot].status = "running"

\* faulty variant: the rejection does not carry the running job's id
RejectValueNoId(slot) == <<None, None>>

\* return None, running_job_id
RejectValue(slot) == <<None, slot>>

\* create_action_job's answer to what create_job returned: 409 with the
\* running job's id when no job id came back, else 202 with the new id
ActionResponse(ret) ==
    IF ret[1] = None
    THEN [kind |-> "action", code |-> 409, error |-> "job_running", job_id |-> ret[2]]
    ELSE [kind |-> "action", code |-> 202, error |-> "", job_id |-> ret[1]]

\* the job record create_job stores
NewJob(job_id, action, repo, ref, now) ==
    [id |-> job_id, action |-> action, repo |-> repo, ref |-> ref,
     status |-> "running",
     logs |-> << <<"[%F %T] Job created: ", action>> >>,
     started_at |-> now, finished_at |-> None, return_code |-> None]

\* uuid.uuid4(): an identifier no job has had before
FreshJobId == Len(jobs) + 1

\* number of jobs accepted so far plus requests that may still be accepted
Committed == Len(jobs) + Cardinality({c \in Callers : request[c].pc = "create_job"})

\* create_action_job up to the call of create_job: parse and validate the
\* request; answer 400 on a validation failure
CreateActionJob(c, action, data) ==
    /\ Quiet
    /\ request[c].pc = "idle"
    /\ Committed < MaxJobs
    /\ LET err  == ValidationError(action, data)
           args == JobArgs(action, data)
       IN  IF err # "ok"
           THEN /\ output' = [kind |-> "action", code |-> 400, error |-> err,
                              job_id |-> None]
                /\ UNCHANGED request
           ELSE /\ request' = [request EXCEPT ![c] =
                                 [IdleRequest EXCEPT !.pc = "create_job",
                                    !.action = action, !.repo = args.repo,
                                    !.ref = args.ref]]
                /\ UNCHANGED output
    /\ UNCHANGED <<jobs, running_job_id, jobs_lock, clock, runner, process,
                 MAX_LOG_LINES, appended, validator>>

\* create_job when the slot names a running job: return (None, running_job_id)
\* and leave the lock; create_action_job answers 409
CreateJobReject(c) ==
    /\ Quiet
    /\ request[c].pc = "create_job"
    /\ LockAvailable(c)
    /\ CreateJobRejects(running_job_id, jobs)
    /\ request' = [request EXCEPT ![c] = IdleRequest]
    /\ output' = ActionResponse(RejectValue(running_job_id))
    /\ UNCHANGED <<jobs, running_job_id, jobs_lock, clock, runner, process,
                 MAX_LOG_LINES, appended, validator>>

\* create_job otherwise: take the lock and store the new job record
CreateJobInsert(c) ==
    /\ Quiet
    /\ request[c].pc = "create_job"
    /\ LockAvailable(c)
    /\ ~CreateJobRejects(running_job_id, jobs)
    /\ jobs_lock' = <<"request", c>>
    /\ jobs' = Append(jobs, NewJob(FreshJobId, request[c].action,
                                   request[c].repo, request[c].ref, clock))
    /\ appended' = Append(appended, NewJob(FreshJobId, request[c].action,
                                           request[c].repo, request[c].ref, clock).logs)
    /\ clock' = clock + 1
    /\ request' = [request EXCEPT ![c].pc = "claim", ![c].job_id = FreshJobId]
    /\ UNCHANGED <<running_job_id, runner, process, output,
                 MAX_LOG_LINES, validator>>

\* running_job_id = job_id, then leave the lock
CreateJobClaim(c) ==
    /\ Quiet
    /\ request[c].pc = "claim"
    /\ running_job_id' = request[c].job_id
    /\ jobs_lock' = NoOwner
    /\ request' = [request EXCEPT ![c].pc = "thread_start"]
    /\ UNCHANGED <<jobs, clock, runner, process, output,
                 MAX_LOG_LINES, appended, validator>>

\* thread.start() and return (job_id, None); create_action_job answers 202
CreateJobStartThread(c) ==
    /\ Quiet
    /\ request[c].pc = "thread_start"
    /\ runner' = [runner EXCEPT ![request[c].job_id].pc = "popen"]
    /\ request' = [request EXCEPT ![c] = IdleRequest]
    /\ output' = ActionResponse(<<request[c].job_id, None>>)
    /\ UNCHANGED <<jobs, running_job_id, jobs_lock, clock, process,
                 MAX_LOG_LINES, appended, validator>>

(* ------------------------ the external process ------------------------ *)
\* the n-th line the script writes to its merged stdout/stderr
OutputLine(n) == <<"out ", ToString(n), "\n">>
\* exit statuses of the script: success and an error status
ExitCodes == {0, 1}

\* cmd = [str(SCRIPT_PATH), action], extended by [repo, ref] for the
\* actions that take them
BuildCmd(action, repo, ref) ==
    IF NeedsRepoRef(action) THEN <<"ops_task.sh", action, repo, ref>>
    ELSE <<"ops_task.sh", action>>

\* the script terminates on its own: after it has closed its output (the
\* runner's loop has ended) or after the runner has given up reading it
ProcessExit(j) ==
    /\ Quiet
    /\ process[j].state = "alive"
    /\ runner[j].pc \notin {"stream", "append_log", "trim_log"} \/ runner[j].raised
    /\ process' = [process EXCEPT ![j].state = "exited"]
    /\ UNCHANGED <<jobs, running_job_id, jobs_lock, clock, request, runner, output,
                 MAX_LOG_LINES, appended, validator>>

(* ------------------------------ run_job ------------------------------- *)
ErrorLine(exc) == <<"[ERROR] Unexpected exception: ", exc>>

\* subprocess.Popen(...) returns: the script is running
PopenStarts(j) ==
    /\ Quiet
    /\ runner[j].pc = "popen"
    /\ j \in DOMAIN jobs
    /\ process' = [process EXCEPT ![j].state = "alive",
                     ![j].cmd = BuildCmd(jobs[j].action, jobs[j].repo, jobs[j].ref)]
    /\ runner' = [runner EXCEPT ![j].pc = "stream"]
    /\ UNCHANGED <<jobs, running_job_id, jobs_lock, clock, request, output,
                 MAX_LOG_LINES, appended, validator>>

\* subprocess.Popen(...) raises (script missing, not executable, ...): control
\* passes to the except clause, which calls append_log with the diagnostic
PopenRaises(j) ==
    /\ Quiet
    /\ runner[j].pc = "popen"
    /\ runner' = [runner EXCEPT ![j].pc = "append_log", ![j].raised = TRUE,
                    ![j].line = ErrorLine("spawn"), ![j].after = "finalize"]
    /\ UNCHANGED <<jobs, running_job_id, jobs_lock, clock, request, process, output,
                 MAX_LOG_LINES, appended, validator>>

\* for line in process.stdout: the next line arrives; call append_log
StreamLine(j) ==
    /\ Quiet
    /\ runner[j].pc = "stream"
    /\ process[j].written < MaxLines
    /\ process' = [process EXCEPT ![j].written = @ + 1]
    /\ runner' = [runner EXCEPT ![j].pc = "append_log",
                    ![j].line = OutputLine(process[j].written + 1),
                    ![j].after = "stream"]
    /\ UNCHANGED <<jobs, running_job_id, jobs_lock, clock, request, output,
                 MAX_LOG_LINES, appended, validator>>

\* the stream ends: leave the loop for process.wait()
StreamEnds(j) ==
    /\ Quiet
    /\ runner[j].pc = "stream"
    /\ runner' = [runner EXCEPT ![j].pc = "wait"]
    /\ UNCHANGED <<jobs, running_job_id, jobs_lock, clock, request, process, output,
                 MAX_LOG_LINES, appended, validator>>

\* reading the stream raises (I/O or decoding error); the script is not
\* waited for and may still be running
StreamRaises(j) ==
    /\ Quiet
    /\ runner[j].pc = "stream"
    /\ runner' = [runner EXCEPT ![j].pc = "append_log", ![j].raised = TRUE,
                    ![j].line = ErrorLine("io"), ![j].after = "finalize"]
    /\ UNCHANGED <<jobs, running_job_id, jobs_lock, clock, request, process, output,
                 MAX_LOG_LINES, appended, validator>>

\* return_code = process.wait(): the script has exited, with status code
Wait(j, code) ==
    /\ Quiet
    /\ runner[j].pc = "wait"
    /\ process[j].state = "exited"
    /\ runner' = [runner EXCEPT ![j].pc = "finalize", ![j].return_code = code]
    /\ UNCHANGED <<jobs, running_job_id, jobs_lock, clock, request, process, output,
                 MAX_LOG_LINES, appended, validator>>

(* ----------------------------- append_log ----------------------------- *)
\* faulty variant: the oldest lines are kept and the newest dropped
TrimLogsKeepsOldest(logs) ==
    IF Len(logs) > MAX_LOG_LINES
    THEN SubSeq(logs, 1, MAX_LOG_LINES)
    ELSE logs

\* if len(logs) > MAX_LOG_LINES: logs = logs[-MAX_LOG_LINES:]
TrimLogs(logs) ==
    IF Len(logs) > MAX_LOG_LINES
    THEN SubSeq(logs, Len(logs) - MAX_LOG_LINES + 1, Len(logs))
    ELSE logs

\* take the lock; job["logs"].append(line.rstrip("\n"))
AppendLogAppend(j) ==
    /\ Quiet
    /\ runner[j].pc = "append_log"
    /\ LockAvailable(j)
    /\ j \in DOMAIN jobs
    /\ jobs_lock' = <<"run_job", j>>
    /\ jobs' = [jobs EXCEPT ![j].logs = Append(@, rstrip_newline(runner[j].line))]
    /\ appended' = [appended EXCEPT ![j] = Append(@, rstrip_newline(runner[j].line))]
    /\ runner' = [runner EXCEPT ![j].pc = "trim_log"]
    /\ UNCHANGED <<running_job_id, clock, request, process, output,
                 MAX_LOG_LINES, validator>>

\* trim to the cap, leave the lock and return to the caller
AppendLogTrim(j) ==
    /\ Quiet
    /\ runner[j].pc = "trim_log"
    /\ jobs' = [jobs EXCEPT ![j].logs = TrimLogs(@)]
    /\ jobs_lock' = NoOwner
    /\ runner' = [runner EXCEPT ![j].pc = runner[j].after, ![j].line = <<>>,
                    ![j].after = ""]
    /\ UNCHANGED <<running_job_id, clock, request, process, output,
                 MAX_LOG_LINES, appended, validator>>

(* ------------------------- run_job: finalizing ------------------------ *)
\* faulty variant: every non-negative exit status counts as success
StatusOfNonNegative(return_code) == IF return_code >= 0 THEN "success" ELSE "failed"

\* "success" if return_code == 0 else "failed"
StatusOf(return_code) == IF return_code = 0 THEN "success" ELSE "failed"

\* faulty variant: the except clause leaves the status as it is
FinalStatusExceptUnset(r) == IF r.raised THEN "running" ELSE StatusOf(r.return_code)

\* the status the runner records: by exit status after a normal wait,
\* "failed" in the except clause
FinalStatus(r) == IF r.raised THEN "failed" ELSE StatusOf(r.return_code)

\* the return code the runner records: the exit status, or -1 in the
\* except clause
FinalReturnCode(r) == IF r.raised THEN -1 ELSE r.return_code

\* take the lock; job["status"] = ...
FinalizeStatus(j) ==
    /\ Quiet
    /\ runner[j].pc = "finalize"
    /\ LockAvailable(j)
    /\ jobs_lock' = <<"run_job", j>>
    /\ jobs' = [jobs EXCEPT ![j].status = FinalStatus(runner[j])]
    /\ runner' = [runner EXCEPT ![j].pc = "finished_at"]
    /\ UNCHANGED <<running_job_id, clock, request, process, output,
                 MAX_LOG_LINES, appended, validator>>

\* job["finished_at"] = now_iso()
FinalizeFinishedAt(j) ==
    /\ Quiet
    /\ runner[j].pc = "finished_at"
    /\ jobs' = [jobs EXCEPT ![j].finished_at = clock]
    /\ clock' = clock + 1
    /\ runner' = [runner EXCEPT ![j].pc = "return_code"]
    /\ UNCHANGED <<running_job_id, jobs_lock, request, process, output,
                 MAX_LOG_LINES, appended, validator>>

\* faulty variant: a closing line is logged after the status has been recorded
FinalizeReturnCodeThenLog(j) ==
    /\ Quiet
    /\ runner[j].pc = "return_code"
    /\ jobs' = [jobs EXCEPT ![j].return_code = FinalReturnCode(runner[j])]
    /\ jobs_lock' = NoOwner
    /\ runner' = [runner EXCEPT ![j].pc = "append_log", ![j].line = <<"finished">>,
                    ![j].after = "finally"]
    /\ UNCHANGED <<running_job_id, clock, request, process, output,
                   MAX_LOG_LINES, appended, validator>>

\* job["return_code"] = ...; jobs[job_id] = job; leave the lock
FinalizeReturnCode(j) ==
    /\ Quiet
    /\ runner[j].pc = "return_code"
    /\ jobs' = [jobs EXCEPT ![j].return_code = FinalReturnCode(runner[j])]
    /\ jobs_lock' = NoOwner
    /\ runner' = [runner EXCEPT ![j].pc = "finally"]
    /\ UNCHANGED <<running_job_id, clock, request, process, output,
                 MAX_LOG_LINES, appended, validator>>

\* faulty variant: the finally clause never clears the slot
ReleaseSlotNever(slot, job_id) == slot

\* faulty variant: the finally clause clears the slot whatever it holds
ReleaseSlotUnguarded(slot, job_id) == None

\* if running_job_id == job_id: running_job_id = None
ReleaseSlot(slot, job_id) == IF slot = job_id THEN None ELSE slot

\* the finally clause, one critical section; the thread then ends
Release(j) ==
    /\ Quiet
    /\ runner[j].pc = "finally"
    /\ LockAvailable(j)
    /\ running_job_id' = ReleaseSlot(running_job_id, j)
    /\ runner' = [runner EXCEPT ![j].pc = "done"]
    /\ UNCHANGED <<jobs, jobs_lock, clock, request, process, output,
                 MAX_LOG_LINES, appended, validator>>

(* ------------------------------ polling ------------------------------- *)
\* faulty variant: the slice starts one line late
SliceOneLate(logs, offset) == SubSeq(logs, offset + 2, Len(logs))

\* job["logs"][offset:]
Slice(logs, offset) == SubSeq(logs, offset + 1, Len(logs))

\* the body api_job builds for a job id and an offset already clamped to >= 0
JobResponse(table, job_id, offset) ==
    IF job_id \notin DOMAIN table
    THEN [error |-> "job_not_found"]
    ELSE LET job == table[job_id]
             logs == Slice(job.logs, offset)
         IN  [id |-> job.id, action |-> job.action, status |-> job.status,
              started_at |-> job.started_at, finished_at |-> job.finished_at,
              return_code |-> job.return_code, logs |-> logs,
              next_offset |-> offset + Len(logs)]

\* api_job, one critical section: look the job up and build the answer
ApiJob(job_id, offset) ==
    /\ Quiet
    /\ LockAvailable("api_job")
    /\ output' = [kind |-> "job",
                  code |-> IF job_id \in DOMAIN jobs THEN 200 ELSE 404,
                  body |-> JobResponse(jobs, job_id, offset)]
    /\ UNCHANGED <<jobs, running_job_id, jobs_lock, clock, request, runner, process,
                 MAX_LOG_LINES, appended, validator>>

\* api_status: read the run slot under the lock and report it as active_job
ApiStatus ==
    /\ Quiet
    /\ LockAvailable("api_status")
    /\ output' = [kind |-> "status", active_job |-> running_job_id]
    /\ UNCHANGED <<jobs, running_job_id, jobs_lock, clock, request, runner, process,
                 MAX_LOG_LINES, appended, validator>>

(* --------------------------- specification ---------------------------- *)
RequestStep(c) ==
    \/ \E action \in Actions, data \in RequestData : CreateActionJob(c, action, data)
    \/ CreateJobReject(c)
    \/ CreateJobInsert(c)
    \/ CreateJobClaim(c)
    \/ CreateJobStartThread(c)

RunnerStep(j) ==
    \/ PopenStarts(j)
    \/ PopenRaises(j)
    \/ StreamLine(j)
    \/ StreamEnds(j)
    \/ StreamRaises(j)
    \/ \E code \in ExitCodes : Wait(j, code)
    \/ AppendLogAppend(j)
    \/ AppendLogTrim(j)
    \/ FinalizeStatus(j)
    \/ FinalizeFinishedAt(j)
    \/ FinalizeReturnCode(j)
    \/ Release(j)

PollStep ==
    \/ \E job_id \in DOMAIN jobs \cup {FreshJobId}, offset \in 0..MaxOffset :
          ApiJob(job_id, offset)
    \/ ApiStatus

\* the answer of the latest step leaves the server
Deliver ==
    /\ output # NoOutput
    /\ output' = NoOutput
    /\ UNCHANGED <<jobs, running_job_id, jobs_lock, clock, request, runner, process,
                 MAX_LOG_LINES, appended, validator>>

Next ==
    \/ \E c \in Callers : RequestStep(c)
    \/ \E j \in JobIds : RunnerStep(j)
    \/ \E j \in JobIds : ProcessExit(j)
    \/ PollStep
    \/ Deliver

Spec == Init /\ [][Next]_vars

\* every thread that is runnable again and again is eventually scheduled: the
\* runner threads, the request thread that has been accepted and still has
\* to claim the slot and start the runner, and the script, which terminates
\* once it is no longer read; every answer is eventually delivered
FairSpec ==
    /\ Spec
    /\ \A j \in JobIds : SF_vars(RunnerStep(j))
    /\ \A j \in JobIds : SF_vars(ProcessExit(j))
    /\ \A c \in Callers : SF_vars(CreateJobClaim(c) \/ CreateJobStartThread(c))
    /\ WF_vars(Deliver)

(* ----------------------- the log buffer on its own -------------------- *)
\* the server has been started with some cap >= 1, a rollback job has been
\* accepted and its script is running: the state Spec reaches by
\* CreateActionJob .. PopenStarts, for each cap
LogInit ==
    LET job == NewJob(1, "rollback", <<>>, Main, 1) IN
    /\ MAX_LOG_LINES \in 1..MaxCap
    /\ jobs = <<job>>
    /\ appended = <<job.logs>>
    /\ running_job_id = 1
    /\ jobs_lock = NoOwner
    /\ clock = 2
    /\ request = [c \in Callers |-> IdleRequest]
    /\ runner = [j \in JobIds |->
                   IF j = 1 THEN [NoRunner EXCEPT !.pc = "stream"] ELSE NoRunner]
    /\ process = [j \in JobIds |->
                    IF j = 1
                    THEN [state |-> "alive", written |-> 0,
                          cmd |-> BuildCmd(job.action, job.repo, job.ref)]
                    ELSE NoProcess]
    /\ output = NoOutput
    /\ validator = NoCall

\* for line in process.stdout, for a script that writes a long output: the
\* next line arrives; call append_log
LogStreamLine(j) ==
    /\ Quiet
    /\ runner[j].pc = "stream"
    /\ process[j].written + 1 < MaxAppends
    /\ process' = [process EXCEPT ![j].written = @ + 1]
    /\ runner' = [runner EXCEPT ![j].pc = "append_log",
                    ![j].line = OutputLine(process[j].written + 1),
                    ![j].after = "stream"]
    /\ UNCHANGED <<jobs, running_job_id, jobs_lock, clock, request, output,
                   MAX_LOG_LINES, appended, validator>>

\* the single writer and the pollers
LogNext ==
    \/ \E j \in JobIds : LogStreamLine(j)
    \/ \E j \in JobIds : AppendLogAppend(j)
    \/ \E j \in JobIds : AppendLogTrim(j)
    \/ PollStep
    \/ Deliver

LogSpec == LogInit /\ [][LogNext]_vars

(* ---------------------- the validators on their own ------------------- *)
\* an allowed character, two shell metacharacters, space and newline
Alphabet == {"a", ";", "$", " ", "\n"}
\* every string over Alphabet of at most n characters
Strings(n) == UNION {[1..k -> Alphabet] : k \in 0..n}
\* n times the character c
Repeat(c, n) == [i \in 1..n |-> c]
\* strings around the length limit of validate_ref, with and without a
\* newline at the end
LongInputs == {Repeat("a", n) \o tail : n \in 127..129, tail \in {<<>>, <<"\n">>}}
\* the two prefixes validate_repo allows, a scheme it does not, and none
Prefixes == {<<>>, <<"h","t","t","p","s",":","/","/">>, <<"g","i","t","@">>,
             <<"h","t","t","p",":","/","/">>}
DotGit == <<".","g","i","t">>
\* the strings the validators are called with
Inputs ==
    LongInputs \cup
    {prefix \o s \o suffix : prefix \in Prefixes, s \in Strings(MaxLen),
                             suffix \in {<<>>, DotGit}}

\* the server is idle and a validator is about to be called with some string
ValidatorInit ==
    /\ jobs = <<>>
    /\ running_job_id = None
    /\ jobs_lock = NoOwner
    /\ clock = 1
    /\ request = [c \in Callers |-> IdleRequest]
    /\ runner = [j \in JobIds |-> NoRunner]
    /\ process = [j \in JobIds |-> NoProcess]
    /\ output = NoOutput
    /\ MAX_LOG_LINES = MAX_LOG_LINES_ENV
    /\ appended = <<>>
    /\ \E s \in Inputs : validator = [NoCall EXCEPT !.arg = s]

\* validate_ref(arg) is called and returns
CallValidateRef ==
    /\ validator.fn = "none"
    /\ validator' = [validator EXCEPT !.fn = "validate_ref",
                                      !.result = validate_ref(validator.arg)]
    /\ UNCHANGED <<jobs, running_job_id, jobs_lock, clock, request, runner, process,
                   output, MAX_LOG_LINES, appended>>

\* validate_repo(arg) is called and returns
CallValidateRepo ==
    /\ validator.fn = "none"
    /\ validator' = [validator EXCEPT !.fn = "validate_repo",
                                      !.result = validate_repo(validator.arg)]
    /\ UNCHANGED <<jobs, running_job_id, jobs_lock, clock, request, runner, process,
                   output, MAX_LOG_LINES, appended>>

ValidatorNext ==
    \/ CallValidateRef
    \/ CallValidateRepo

ValidatorSpec == ValidatorInit /\ [][ValidatorNext]_vars

(* ------------------------------ properties ---------------------------- *)
RunningJobs == {j \in DOMAIN jobs : jobs[j].status = "running"}

\* the step in which request thread c passes the test at the top of create_job
Checks(c) == request[c].pc = "create_job" /\ request'[c].pc # "create_job"
\* ... and is accepted: it goes on to claim the slot with a new job
Accepted(c) == Checks(c) /\ request'[c].pc = "claim"
\* ... and is rejected: it returns at once
Rejected(c) == Checks(c) /\ request'[c].pc = "idle"

\* C1: in every reachable state at most one job record has status "running"
C1_SingleRunSlot == Cardinality(RunningJobs) <= 1

\* a second job runs after a first one has finished
C1_Witness ==
    \E j, k \in DOMAIN jobs :
        /\ Terminal(jobs[j].status)
        /\ jobs[k].status = "running"
        /\ runner[k].pc = "stream"

\* C2: of two create_job calls racing for a free slot, the one that takes the
\* lock first is accepted with a new job id, and the other, if its test runs
\* while that job is still running, is rejected with that job's id
C2_StartRace ==
    [][\A c, d \in Callers :
         /\ (c # d /\ Checks(c) /\ request[d].pc = "create_job" /\ RunningJobs = {})
               => /\ Accepted(c)
                  /\ request'[c].job_id \notin DOMAIN jobs
                  /\ request'[c].job_id \in DOMAIN jobs'
                  /\ request'[d] = request[d]
         /\ (c # d /\ Checks(d) /\ request[c].pc \in {"claim", "thread_start"}
                   /\ jobs[request[c].job_id].status = "running")
               => /\ Rejected(d)
                  /\ output' = [kind |-> "action", code |-> 409, error |-> "job_running",
                                job_id |-> request[c].job_id]
                  /\ jobs' = jobs
                  /\ running_job_id' = running_job_id
      ]_vars

\* the first caller has been accepted and has not yet returned; the second
\* has just been rejected with the first caller's job id
C2_Witness ==
    \E c \in Callers :
        /\ request[c].pc = "thread_start"
        /\ output = [kind |-> "action", code |-> 409, error |-> "job_running",
                     job_id |-> request[c].job_id]

\* C3: a create_job call made while job J is running returns (None, J),
\* answers 409 with J's id, and changes neither the job table, nor the slot,
\* nor any runner or process; J leaves "running" only by its own runner's
\* finalizing step
C3_RejectionChangesNothing ==
    [][/\ \A c \in Callers : \A J \in RunningJobs :
             Checks(c) =>
                 /\ Rejected(c)
                 /\ output' = [kind |-> "action", code |-> 409,
                               error |-> "job_running", job_id |-> J]
                 /\ UNCHANGED <<jobs, running_job_id, runner, process, clock>>
       /\ \A J \in RunningJobs :
             jobs'[J].status # "running" =>
                 runner[J].pc = "finalize" /\ runner'[J].pc = "finished_at"
      ]_vars

\* a caller has been rejected with the id of a job that is still running and
\* whose runner is at work
C3_Witness ==
    /\ output.kind = "action"
    /\ output.code = 409
    /\ output.job_id \in RunningJobs
    /\ runner[output.job_id].pc = "stream"
    /\ Len(jobs[output.job_id].logs) = 2

\* the request is one create_action_job must refuse: an action that takes a
\* repo and a ref, with the repo missing or malformed or the ref malformed
C4_Invalid(action, data) ==
    /\ action \in {"download", "deploy", "upgrade"}
    /\ \/ parse_repo_ref(data).repo = <<>>
       \/ ~validate_repo(parse_repo_ref(data).repo)
       \/ ~validate_ref(parse_repo_ref(data).ref)

\* C4: a request that fails validation is answered 400 at once and creates
\* no job, claims no slot and starts no runner or process; rollback is never
\* refused for validation; every job is stored with a repo and a ref that
\* pass validation if its action takes them, and keeps them
C4_ValidationRejection ==
    /\ [][\A c \in Callers :
            (/\ request[c].pc = "idle"
             /\ \/ request'[c].pc = "create_job"
                \/ output'.kind = "action" /\ output'.code = 400) =>
              \A action \in Actions, data \in RequestData :
                CreateActionJob(c, action, data) =>
                  /\ C4_Invalid(action, data) =>
                       /\ output'.kind = "action"
                       /\ output'.code = 400
                       /\ output'.job_id = None
                       /\ UNCHANGED <<jobs, running_job_id, jobs_lock, request,
                                      runner, process>>
                  /\ action = "rollback" =>
                       /\ output' = NoOutput
                       /\ request'[c].pc = "create_job"
         ]_vars
    /\ [][/\ Len(jobs') > Len(jobs) =>
              LET job == jobs'[Len(jobs')] IN
              NeedsRepoRef(job.action) =>
                /\ job.repo # <<>>
                /\ validate_repo(job.repo)
                /\ validate_ref(job.ref)
          /\ \A j \in DOMAIN jobs :
                /\ jobs'[j].action = jobs[j].action
                /\ jobs'[j].repo = jobs[j].repo
                /\ jobs'[j].ref = jobs[j].ref
         ]_vars

\* a request has just been refused for its ref while a deploy job with a
\* valid repo and ref is running
C4_Witness ==
    /\ output.kind = "action"
    /\ output.code = 400
    /\ output.error = "invalid_ref"
    /\ \E j \in RunningJobs : jobs[j].action = "deploy" /\ runner[j].pc = "wait"

\* C5: whenever the lock is free, a job has finished_at and return_code set
\* exactly if its status is success or failed; a terminal status, a set
\* finished_at and a set return_code never change again
C5_TerminalFinalization ==
    /\ [](jobs_lock = NoOwner =>
            \A j \in DOMAIN jobs :
              /\ (jobs[j].finished_at # None) <=> Terminal(jobs[j].status)
              /\ (jobs[j].return_code # None) <=> Terminal(jobs[j].status))
    /\ [][\A j \in DOMAIN jobs :
            /\ Terminal(jobs[j].status) => jobs'[j].status = jobs[j].status
            /\ jobs[j].finished_at # None =>
                 jobs'[j].finished_at = jobs[j].finished_at
            /\ jobs[j].return_code # None =>
                 jobs'[j].return_code = jobs[j].return_code
         ]_vars

\* a job finalized by the except clause has seen its runner end and a later
\* job be created, run and log
C5_Witness ==
    \E j, k \in DOMAIN jobs :
        /\ j < k
        /\ jobs[j].status = "failed"
        /\ jobs[j].return_code = -1
        /\ runner[j].pc = "done"
        /\ Len(jobs[k].logs) = 2
        /\ jobs_lock = NoOwner

IsErrorLine(line) == line # <<>> /\ line[1] = "[ERROR] Unexpected exception: "

\* C6: a job's status changes only from running to success or failed; after
\* a normal wait it is success exactly if the exit status is 0 and the
\* return code is the exit status; after an exception it is failed with
\* return code -1, and the diagnostic line has been appended before the
\* status changes
C6_JobStateMachine ==
    /\ [][\A j \in DOMAIN jobs :
            jobs'[j].status # jobs[j].status =>
              /\ jobs[j].status = "running"
              /\ Terminal(jobs'[j].status)
              /\ IF runner[j].raised
                 THEN /\ jobs'[j].status = "failed"
                      /\ IsErrorLine(jobs[j].logs[Len(jobs[j].logs)])
                 ELSE /\ process[j].state = "exited"
                      /\ jobs'[j].status = "success" <=> runner[j].return_code = 0
         ]_vars
    /\ [](jobs_lock = NoOwner =>
            \A j \in DOMAIN jobs :
              Terminal(jobs[j].status) =>
                IF runner[j].raised
                THEN /\ jobs[j].status = "failed"
                     /\ jobs[j].return_code = -1
                     /\ Cardinality({i \in 1..Len(jobs[j].logs) :
                                       IsErrorLine(jobs[j].logs[i])}) = 1
                ELSE /\ jobs[j].return_code = runner[j].return_code
                     /\ jobs[j].return_code \in ExitCodes
                     /\ jobs[j].status = "success" <=> jobs[j].return_code = 0)

\* one job has failed by an exception and another by a nonzero exit status
C6_Witness ==
    \E j, k \in DOMAIN jobs :
        /\ jobs[j].status = "failed" /\ jobs[j].return_code = -1
        /\ jobs[k].status = "failed" /\ jobs[k].return_code = 1
        /\ jobs_lock = NoOwner

\* C7: under fair scheduling every accepted job reaches success or failed and
\* its runner runs the release step, after which the slot does not name it
C7_NoStuckJob ==
    \A j \in JobIds :
        (j \in DOMAIN jobs) ~>
            (/\ j \in DOMAIN jobs
             /\ Terminal(jobs[j].status)
             /\ runner[j].pc = "done"
             /\ running_job_id # j)

\* a job whose stream raised has been finalized and released
C7_Witness ==
    \E j \in DOMAIN jobs :
        /\ runner[j].raised
        /\ process[j].state = "alive"
        /\ runner[j].pc = "done"
        /\ jobs[j].status = "failed"
        /\ running_job_id = None

\* C8: a create_job call is rejected only when some job is running, and is
\* accepted, storing a new job, whenever no job is running
C8_SlotFreeAfterFinish ==
    [][\A c \in Callers :
         Checks(c) =>
           /\ Rejected(c) => RunningJobs # {}
           /\ RunningJobs = {} =>
                /\ Accepted(c)
                /\ Len(jobs') = Len(jobs) + 1
                /\ jobs'[Len(jobs')].status = "running"
      ]_vars

\* a job has been accepted right after the previous one failed to spawn
C8_Witness ==
    \E c \in Callers, j \in DOMAIN jobs :
        /\ runner[j].raised
        /\ process[j].state = "none"
        /\ Terminal(jobs[j].status)
        /\ request[c].pc = "claim"
        /\ request[c].job_id = j + 1

\* C9 as stated: when create_job accepts a job, the runner of every earlier
\* job has completed its release step
C9_NoClaimBeforeRelease ==
    [][\A c \in Callers :
         Accepted(c) => \A j \in DOMAIN jobs : runner[j].pc = "done"
      ]_vars

\* C9 amended: when create_job accepts a job, the runner of every earlier
\* job has recorded the job's terminal status, finished_at and return_code;
\* it may not have run its release step yet
C9_NoClaimBeforeFinalize ==
    [][\A c \in Callers :
         Accepted(c) =>
           \A j \in DOMAIN jobs :
             /\ runner[j].pc \in {"finally", "done"}
             /\ Terminal(jobs[j].status)
             /\ jobs[j].finished_at # None
             /\ jobs[j].return_code # None
      ]_vars

\* a second job has been accepted while the first job's runner has not yet
\* run its release step
C9_Witness ==
    \E j, k \in DOMAIN jobs :
        /\ j < k
        /\ runner[j].pc = "finally"
        /\ running_job_id = k

RunnerTasks == {j \in JobIds : runner[j].pc \notin {"none", "done"}}
UnfinalizedRunners == {j \in JobIds : runner[j].pc \notin {"none", "finally", "done"}}

\* C10 as stated: at most one started runner thread has not yet finished its
\* release step
C10_OneRunnerTask == Cardinality(RunnerTasks) <= 1

\* C10 amended: at most one started runner thread has not yet recorded its
\* job's terminal status
C10_OneUnfinalizedRunner == Cardinality(UnfinalizedRunners) <= 1

\* two runner threads exist: one about to release, one streaming
C10_Witness ==
    \E j, k \in JobIds :
        /\ runner[j].pc = "finally"
        /\ runner[k].pc = "stream"

(* --------------------------- the log buffer --------------------------- *)
\* the last min(Len(s), n) elements of s
LastLines(s, n) == SubSeq(s, Len(s) - (IF n < Len(s) THEN n ELSE Len(s)) + 1, Len(s))

\* C11: for every cap >= 1, whenever the lock is free each job's logs hold at
\* most MAX_LOG_LINES lines, and they are exactly the last min(total, cap) of
\* the lines ever appended to the job, the "Job created" line included, in
\* the order of arrival
C11_BoundedLog ==
    (MAX_LOG_LINES >= 1 /\ jobs_lock = NoOwner) =>
        \A j \in DOMAIN jobs :
            /\ Len(jobs[j].logs) <= MAX_LOG_LINES
            /\ jobs[j].logs = LastLines(appended[j], MAX_LOG_LINES)

\* with a cap of at least two, two or more lines have been evicted
C11_Witness ==
    \E j \in DOMAIN jobs :
        /\ jobs_lock = NoOwner
        /\ MAX_LOG_LINES >= 2
        /\ Len(appended[j]) >= MAX_LOG_LINES + 2
        /\ Len(jobs[j].logs) = MAX_LOG_LINES

\* C12: a read from offset 0 of a job to which more lines than the cap have
\* been appended returns exactly the last MAX_LOG_LINES appended lines, in
\* their original order
C12_ReadFromZero ==
    [][\A j \in DOMAIN jobs :
         (ApiJob(j, 0) /\ Len(appended[j]) > MAX_LOG_LINES) =>
             /\ output'.code = 200
             /\ Len(output'.body.logs) = MAX_LOG_LINES
             /\ output'.body.logs = LastLines(appended[j], MAX_LOG_LINES)
      ]_vars

\* a read from offset 0 has returned a full buffer of at least two lines
\* after at least two lines were evicted
C12_Witness ==
    /\ output.kind = "job"
    /\ output.code = 200
    /\ output.body.next_offset = Len(output.body.logs)
    /\ MAX_LOG_LINES >= 2
    /\ Len(output.body.logs) = MAX_LOG_LINES
    /\ Len(appended[output.body.id]) >= MAX_LOG_LINES + 2

\* C13: a read from offset 0 of a job to which more lines than the cap have
\* been appended returns next_offset equal to the number of lines ever
\* appended to the job
C13_NextOffsetIsTotal ==
    [][\A j \in DOMAIN jobs :
         (ApiJob(j, 0) /\ Len(appended[j]) > MAX_LOG_LINES) =>
             output'.body.next_offset = Len(appended[j])
      ]_vars

\* a read from offset 0 has returned a next_offset that is the number of
\* lines retained, below the number of lines ever appended
C13_Witness ==
    /\ output.kind = "job"
    /\ output.code = 200
    /\ output.body.next_offset = Len(output.body.logs)
    /\ output.body.next_offset = MAX_LOG_LINES
    /\ output.body.next_offset < Len(appended[output.body.id])

\* the logical index of the i-th retained line of job j: the number of lines
\* appended to j before it
LogicalIndex(j, i) == Len(appended[j]) - Len(jobs[j].logs) + i - 1

\* the retained lines of job j whose logical index is at least offset
FromLogical(j, offset) ==
    LET first == CHOOSE i \in 1..(Len(jobs[j].logs) + 1) :
                     /\ i = Len(jobs[j].logs) + 1 \/ LogicalIndex(j, i) >= offset
                     /\ \A k \in 1..(i - 1) : LogicalIndex(j, k) < offset
    IN  SubSeq(jobs[j].logs, first, Len(jobs[j].logs))

\* C14: a read at any offset >= 0 returns exactly the retained lines whose
\* logical index is at least the offset, and all retained lines when the
\* offset is older than the oldest retained line
C14_ReadByLogicalIndex ==
    [][\A j \in DOMAIN jobs : \A offset \in 0..MaxOffset :
         ApiJob(j, offset) =>
             /\ output'.body.logs = FromLogical(j, offset)
             /\ offset <= LogicalIndex(j, 1) => output'.body.logs = jobs[j].logs
      ]_vars

\* a read at offset 1, older than the oldest retained line, has returned
\* fewer lines than are retained
C14_Witness ==
    /\ output.kind = "job"
    /\ output.code = 200
    /\ output.body.next_offset = 1 + Len(output.body.logs)
    /\ LogicalIndex(output.body.id, 1) > 1
    /\ Len(output.body.logs) < Len(jobs[output.body.id].logs)

(* ---------------------------- the validators -------------------------- *)
\* C15: every string validate_ref accepts has between 1 and 128 characters,
\* all of them in [A-Za-z0-9._/-]
C15_ValidateRefSound ==
    (validator.fn = "validate_ref" /\ validator.result) =>
        /\ Len(validator.arg) >= 1
        /\ Len(validator.arg) <= 128
        /\ AllIn(validator.arg, RefClass)

\* validate_ref has accepted a string that ends with a newline
C15_Witness ==
    /\ validator.fn = "validate_ref"
    /\ validator.result
    /\ validator.arg = <<"a", "\n">>

\* s starts with prefix, goes on for at least one character, and every
\* character after the prefix is in the class
PrefixThenClass(s, prefix, class) ==
    /\ Len(s) > Len(prefix)
    /\ SubSeq(s, 1, Len(prefix)) = prefix
    /\ AllIn(SubSeq(s, Len(prefix) + 1, Len(s)), class)

\* C16: every string validate_repo accepts starts with "https://" or "git@",
\* has at least one further character, and has only characters of
\* [A-Za-z0-9._:/-] after the prefix
C16_ValidateRepoSound ==
    (validator.fn = "validate_repo" /\ validator.result) =>
        \/ PrefixThenClass(validator.arg, <<"h","t","t","p","s",":","/","/">>, RepoClass)
        \/ PrefixThenClass(validator.arg, <<"g","i","t","@">>, RepoClass)

\* validate_repo has accepted a URL that ends with a newline
C16_Witness ==
    /\ validator.fn = "validate_repo"
    /\ validator.result
    /\ validator.arg = <<"h","t","t","p","s",":","/","/","a","\n">>

(* ------------------------- release and processes ---------------------- *)
\* the step in which job j's runner executes the finally clause
Releases(j) == runner[j].pc = "finally" /\ runner'[j].pc = "done"

\* C17: the release step of job j's runner empties the slot if the slot holds
\* j and leaves it unchanged if it holds another job's id; the slot is never
\* emptied except by the release step of the job it names
C17_GuardedRelease ==
    [][/\ \A j \in JobIds :
             Releases(j) =>
                 /\ running_job_id = j => running_job_id' = None
                 /\ running_job_id # j => running_job_id' = running_job_id
       /\ (running_job_id # None /\ running_job_id' = None) =>
             Releases(running_job_id)
      ]_vars

\* job j's runner is about to release, the lock is free, and the slot
\* already holds a newer job that is running
C17_Witness ==
    \E j, k \in DOMAIN jobs :
        /\ j < k
        /\ runner[j].pc = "finally"
        /\ jobs_lock = NoOwner
        /\ Quiet
        /\ running_job_id = k
        /\ jobs[k].status = "running"
        /\ runner[k].pc = "stream"

AliveProcesses == {j \in JobIds : process[j].state = "alive"}

\* C18: in every reachable state at most one external script process is
\* alive
C18_OneProcessAlive == Cardinality(AliveProcesses) <= 1

\* the first job's runner gave up reading its script, which has not exited,
\* and recorded the job as failed; the second job's script is running too
C18_Witness ==
    \E j, k \in DOMAIN jobs :
        /\ j < k
        /\ runner[j].raised
        /\ jobs[j].status = "failed"
        /\ jobs[j].return_code = -1
        /\ process[j].state = "alive"
        /\ process[k].state = "alive"
        /\ jobs[k].status = "running"

\* C19 as stated: whenever the lock is free, the slot, which the status
\* endpoint reports as active_job, is non-empty exactly if the job it names
\* is running: it never names a finished job, and every running job is the
\* one it names
C19_SlotIffRunning ==
    /\ output.kind = "status" => output.active_job = running_job_id
    /\ jobs_lock = NoOwner =>
          /\ running_job_id # None =>
                /\ running_job_id \in DOMAIN jobs
                /\ jobs[running_job_id].status = "running"
          /\ \A j \in RunningJobs : running_job_id = j

\* C19 amended: whenever the lock is free, every running job is the one the
\* slot names, and the slot names either a running job or a finished job
\* whose runner has not yet executed its release step; the status endpoint
\* reports the slot as active_job
C19_SlotCoversRunning ==
    /\ output.kind = "status" => output.active_job = running_job_id
    /\ jobs_lock = NoOwner =>
          /\ running_job_id # None =>
                /\ running_job_id \in DOMAIN jobs
                /\ \/ jobs[running_job_id].status = "running"
                   \/ /\ Terminal(jobs[running_job_id].status)
                      /\ runner[running_job_id].pc = "finally"
          /\ \A j \in RunningJobs : running_job_id = j

\* the status endpoint has reported as active_job a job that has failed and
\* whose runner has not yet released the slot
C19_Witness ==
    /\ output.kind = "status"
    /\ output.active_job \in DOMAIN jobs
    /\ jobs[output.active_job].status = "failed"
    /\ runner[output.active_job].pc = "finally"
    /\ jobs_lock = NoOwner

\* C20: once a job's status is success or failed its runner is past every
\* append_log call, so no line is appended to or evicted from its logs any
\* more; on the exception path the diagnostic line is the last line appended
\* when the status changes; a poll that reports a terminal status reports,
\* from its offset on, the logs the job keeps for ever
C20_LogsFinalAtTerminal ==
    /\ [](\A j \in DOMAIN jobs :
            Terminal(jobs[j].status) =>
                runner[j].pc \in {"finished_at", "return_code", "finally", "done"})
    /\ [][\A j \in DOMAIN jobs :
            /\ Terminal(jobs[j].status) =>
                  /\ jobs'[j].logs = jobs[j].logs
                  /\ appended'[j] = appended[j]
            /\ (jobs[j].status = "running" /\ Terminal(jobs'[j].status)
                  /\ runner[j].raised) =>
                  /\ IsErrorLine(appended[j][Len(appended[j])])
                  /\ jobs'[j].logs = jobs[j].logs
         ]_vars
    /\ [](output.kind = "job" /\ output.code = 200
            /\ Terminal(output.body.status) =>
              output.body.logs =
                  Slice(jobs[output.body.id].logs,
                        output.body.next_offset - Len(output.body.logs)))

\* a poll from offset 1 has reported a job as failed by an exception together
\* with its diagnostic line, and the job's runner has ended
C20_Witness ==
    /\ output.kind = "job"
    /\ output.code = 200
    /\ output.body.status = "failed"
    /\ output.body.return_code = -1
    /\ output.body.next_offset = 1 + Len(output.body.logs)
    /\ Len(output.body.logs) >= 1
    /\ IsErrorLine(output.body.logs[Len(output.body.logs)])
    /\ runner[output.body.id].pc = "done"

=============================================================================
